---- MODULE Spec2Model ----
(***************************************************************************)
(* Model of the credit-card analytics program: the synthetic data          *)
(* generator (src/data_generator.py), the insight engine                   *)
(* (src/genai_handler.py) and the calls the dashboard makes on them        *)
(* (src/app.py).                                                           *)
(*                                                                         *)
(* Units.  Money is kept in cents (an amount rounded to 2 decimals is an   *)
(* integer number of cents).  Timestamps are minutes since 00:00 of day 0  *)
(* of a calendar of 365-day years; every offset the program adds to a      *)
(* timestamp is a whole number of minutes.  Percentages rounded to one     *)
(* decimal are kept in tenths.  A value the program does not round is kept *)
(* as an exact fraction (numerator and denominator).                       *)
(*                                                                         *)
(* Random sources.  The program seeds two process-wide generators          *)
(* (random and numpy.random) with the same seed and then only draws from   *)
(* them.  Each is modelled as a 16-bit linear congruential generator whose *)
(* state is part of the program state; one draw advances the state once    *)
(* and yields the uniform value state / 65536 in [0,1).                    *)
(***************************************************************************)
EXTENDS Integers, Sequences, FiniteSets, TLC

(***************************************************************************)
(* Bounds of the model.                                                    *)
(***************************************************************************)
MaxCustomers == 2
ExtraSeeds == 0
MaxTicks == 1
MaxRuns == 2
MaxRows == 3

(***************************************************************************)
(* Program constants.                                                      *)
(***************************************************************************)
DefaultSeed == 42
NumMonths == 6
TxnCountLow == 10
TxnCountHigh == 40
TenureLow == 365
TenureHigh == 3650
DaysPerMonth == 30
WindowDays == 90
LargeAmountCents == 100000
MinutesPerDay == 24 * 60

\* The seeds of the model: the default seed, and seeds from 2872 on; the
\* stream of 2872 holds the largest uniform value at an amount draw of its
\* first customer.
Seeds == {DefaultSeed} \cup { 2872 + k : k \in 0..ExtraSeeds }

(***************************************************************************)
(* Arithmetic helpers.                                                     *)
(***************************************************************************)
Min(a, b) == IF a <= b THEN a ELSE b

Max(a, b) == IF a >= b THEN a ELSE b

Abs(a) == IF a >= 0 THEN a ELSE 0 - a

\* Python's round() on a non-negative fraction n/d: to the nearest integer,
\* an exact half going to the even neighbour.
RoundHalfEven(n, d) ==
    LET q == n \div d
        r == n % d
    IN  IF 2 * r < d THEN q
        ELSE IF 2 * r > d THEN q + 1
        ELSE IF q % 2 = 0 THEN q ELSE q + 1

\* The digits of n, left-padded with zeros to at least `width` digits: the
\* format specification 0<width>d.
RECURSIVE Digits(_)
Digits(n) == IF n < 10 THEN <<n>> ELSE Append(Digits(n \div 10), n % 10)

ZeroPad(n, width) ==
    LET d == Digits(n)
    IN  IF Len(d) >= width THEN d
        ELSE [k \in 1..(width - Len(d)) |-> 0] \o d

(***************************************************************************)
(* The seeded random sources.                                              *)
(***************************************************************************)
PrngModulus == 256 * 256

\* One step of a generator.
PrngNext(x) == (25173 * x + 13849) % PrngModulus

\* The state after random.seed(seed) and after np.random.seed(seed).
PySeedState(seed) == (seed * 7919 + 104729) % PrngModulus

NpSeedState(seed) == seed % PrngModulus

\* A draw "uniform value < percent/100", the uniform value being x/65536.
BelowPercent(x, percent) == x * 100 < percent * PrngModulus

\* A uniform integer in lo..hi-1 (randint with an exclusive upper end,
\* randrange, the index random.choice picks).
RandBelow(x, lo, hi) == lo + ((x * (hi - lo)) \div PrngModulus)

\* np.random.choice(values, p): the first index whose cumulative weight
\* (in percent) exceeds the uniform value.
RECURSIVE ChoiceIndex(_, _, _)
ChoiceIndex(x, cum, k) ==
    IF k >= Len(cum) \/ BelowPercent(x, cum[k]) THEN k
    ELSE ChoiceIndex(x, cum, k + 1)

\* round(lo + (hi - lo) * x/65536, 2) in cents, for lo and hi in dollars.
\* The product (hi-lo)*100*x is split so that every intermediate value
\* stays below 2^31; the value drawn is exact in binary floating point, so
\* round() rounds its exact value, an exact half going to even.
UniformRoundedCents(lo, hi, x) ==
    LET R     == (hi - lo) * 100
        A     == R * (x \div 256)
        F     == (A % 256) * 256 + R * (x % 256)
        whole == lo * 100 + (A \div 256) + (F \div PrngModulus)
        rem   == F % PrngModulus
    IN  IF 2 * rem < PrngModulus THEN whole
        ELSE IF 2 * rem > PrngModulus THEN whole + 1
        ELSE IF whole % 2 = 0 THEN whole ELSE whole + 1

(***************************************************************************)
(* CreditCardDataGenerator: the fixed vocabularies.                        *)
(***************************************************************************)
\* list(MERCHANT_CATEGORIES.keys()), in declaration order.
CategoryKeys ==
    << "Dining", "Travel", "Shopping", "Groceries", "Entertainment",
       "Healthcare", "Utilities", "Gas", "Other" >>

MERCHANT_CATEGORIES(category) ==
    CASE category = "Dining" ->
           << "Fine Dining Restaurant", "Coffee Shop", "Fast Food", "Bar & Lounge" >>
      [] category = "Travel" ->
           << "Airline", "Hotel", "Car Rental", "Travel Agency" >>
      [] category = "Shopping" ->
           << "Department Store", "Online Retailer", "Boutique", "Electronics Store" >>
      [] category = "Groceries" ->
           << "Supermarket", "Organic Market", "Convenience Store" >>
      [] category = "Entertainment" ->
           << "Streaming Service", "Concert Venue", "Movie Theater", "Gaming" >>
      [] category = "Healthcare" ->
           << "Pharmacy", "Medical Clinic", "Gym Membership" >>
      [] category = "Utilities" ->
           << "Electric Company", "Internet Provider", "Phone Service" >>
      [] category = "Gas" ->
           << "Gas Station", "EV Charging Station" >>
      [] OTHER ->
           << "Insurance", "Subscription Service", "Professional Services" >>

CreditLimits == << 5000, 10000, 15000, 25000, 50000 >>

\* Cumulative weights, in percent, of p=[0.2, 0.3, 0.25, 0.15, 0.1].
CreditLimitCum == << 20, 50, 75, 90, 100 >>

SegmentNames == << "Premium", "Standard", "Basic" >>

\* Cumulative weights, in percent, of p=[0.2, 0.5, 0.3].
SegmentCum == << 20, 70, 100 >>

AnnualFee(segment) ==
    IF segment = "Basic" THEN 0 ELSE IF segment = "Standard" THEN 95 ELSE 550

\* travel_prob and dining_prob of a segment, in percent.
TravelProb(segment) ==
    IF segment = "Premium" THEN 30 ELSE IF segment = "Standard" THEN 15 ELSE 5

DiningProb(segment) ==
    IF segment = "Premium" THEN 25 ELSE IF segment = "Standard" THEN 15 ELSE 10

\* The bounds, in dollars, of the np.random.uniform draw of a category.
AmountRange(category) ==
    CASE category = "Travel" -> << 200, 2000 >>
      [] category = "Dining" -> << 15, 300 >>
      [] category = "Shopping" -> << 20, 800 >>
      [] category = "Groceries" -> << 30, 200 >>
      [] OTHER -> << 10, 300 >>

\* f'CUST_{n:05d}' and f'TXN_{customer_id}_{k:05d}'.
CustomerId(n) == [prefix |-> "CUST_", digits |-> ZeroPad(n, 5)]

\* A variant that numbers the transactions from 1.
TransactionIdFromOne(customer_id, k) ==
    [prefix |-> "TXN_", customer |-> customer_id, digits |-> ZeroPad(k + 1, 5)]

TransactionId(customer_id, k) ==
    [prefix |-> "TXN_", customer |-> customer_id, digits |-> ZeroPad(k, 5)]

(***************************************************************************)
(* generate_customer_profile: three draws from numpy's generator and one   *)
(* reading of the wall clock.                                              *)
(***************************************************************************)
generate_customer_profile(customer_id, now, np) ==
    LET x1 == PrngNext(np)
        x2 == PrngNext(x1)
        x3 == PrngNext(x2)
        credit_limit == CreditLimits[ChoiceIndex(x1, CreditLimitCum, 1)]
        segment      == SegmentNames[ChoiceIndex(x2, SegmentCum, 1)]
        tenure_days  == RandBelow(x3, TenureLow, TenureHigh)
    IN  [ profile |-> [ customer_id  |-> customer_id,
                        credit_limit |-> credit_limit,
                        segment      |-> segment,
                        member_since |-> now - tenure_days * MinutesPerDay,
                        annual_fee   |-> AnnualFee(segment) ],
          np |-> x3 ]

(***************************************************************************)
(* generate_transactions, one pass of the inner loop body: the draws of    *)
(* one transaction, in the order the code makes them, and the row          *)
(* appended.  `k` is len(transactions) before the append.                  *)
(***************************************************************************)
\* A variant that compares the draw with dining_prob alone.
SelectCategoryDiningAlone(segment, rand_val, py) ==
    IF BelowPercent(rand_val, TravelProb(segment))
      THEN [category |-> "Travel", py |-> py]
    ELSE IF BelowPercent(rand_val, DiningProb(segment))
      THEN [category |-> "Dining", py |-> py]
    ELSE LET c == PrngNext(py)
         IN  [category |-> CategoryKeys[RandBelow(c, 1, Len(CategoryKeys) + 1)],
              py |-> c]

SelectCategory(segment, rand_val, py) ==
    IF BelowPercent(rand_val, TravelProb(segment))
      THEN [category |-> "Travel", py |-> py]
    ELSE IF BelowPercent(rand_val, TravelProb(segment) + DiningProb(segment))
      THEN [category |-> "Dining", py |-> py]
    ELSE LET c == PrngNext(py)
         IN  [category |-> CategoryKeys[RandBelow(c, 1, Len(CategoryKeys) + 1)],
              py |-> c]

DrawAmount(category, x) ==
    UniformRoundedCents(AmountRange(category)[1], AmountRange(category)[2], x)

EmitTransaction(profile, month_start, k, py, np) ==
    LET rand_val == PrngNext(py)
        sel      == SelectCategory(profile.segment, rand_val, rand_val)
        category == sel.category
        vocab    == MERCHANT_CATEGORIES(category)
        pm       == PrngNext(sel.py)
        merchant == vocab[RandBelow(pm, 1, Len(vocab) + 1)]
        xa       == PrngNext(np)
        pd       == PrngNext(pm)
        ph       == PrngNext(pd)
        pmin     == PrngNext(ph)
        date     == month_start
                      + RandBelow(pd, 0, 30) * MinutesPerDay
                      + RandBelow(ph, 0, 24) * 60
                      + RandBelow(pmin, 0, 60)
        pf       == PrngNext(pmin)
        po       == PrngNext(pf)
    IN  [ row |-> [ customer_id    |-> profile.customer_id,
                    transaction_id |-> TransactionId(profile.customer_id, k),
                    date           |-> date,
                    category       |-> category,
                    merchant       |-> merchant,
                    amount         |-> DrawAmount(category, xa),
                    is_foreign     |-> BelowPercent(pf, 5),
                    is_online      |-> BelowPercent(po, 40) ],
          py |-> po,
          np |-> xa ]

\* The inner loop, lines 83-126: `n` more passes, each appending one row to
\* `rows` and advancing both generators.
RECURSIVE EmitMonth(_, _, _, _, _, _)
EmitMonth(profile, month_start, rows, n, py, np) ==
    IF n = 0 THEN [rows |-> rows, py |-> py, np |-> np]
    ELSE LET r == EmitTransaction(profile, month_start, Len(rows), py, np)
         IN  EmitMonth(profile, month_start, Append(rows, r.row), n - 1,
                       r.py, r.np)

(***************************************************************************)
(* calculate_risk_metrics.                                                 *)
(***************************************************************************)
\* Sums and maxima over a table are computed by halving the index range.
RECURSIVE SumAmountIn(_, _, _)
SumAmountIn(rows, lo, hi) ==
    IF lo > hi THEN 0
    ELSE IF lo = hi THEN rows[lo].amount
    ELSE LET mid == (lo + hi) \div 2
         IN  SumAmountIn(rows, lo, mid) + SumAmountIn(rows, mid + 1, hi)

\* rows['amount'].sum(), in cents.
SumAmount(rows) == SumAmountIn(rows, 1, Len(rows))

RECURSIVE MaxDateIn(_, _, _)
MaxDateIn(rows, lo, hi) ==
    IF lo = hi THEN rows[lo].date
    ELSE LET mid == (lo + hi) \div 2
         IN  Max(MaxDateIn(rows, lo, mid), MaxDateIn(rows, mid + 1, hi))

\* rows['date'].max() of a non-empty table.
MaxDate(rows) == MaxDateIn(rows, 1, Len(rows))

\* d.hour of a timestamp.
HourOf(date) == (date % MinutesPerDay) \div 60

IsForeign(row) == row.is_foreign

\* A variant that counts an amount of exactly 1000 too.
IsLargeInclusive(row) == row.amount >= LargeAmountCents

IsLarge(row) == row.amount > LargeAmountCents

IsLateNight(row) == HourOf(row.date) >= 23 \/ HourOf(row.date) <= 5

\* A variant that leaves out the rows dated exactly at the cutoff.
After(rows, cutoff) ==
    LET InWindow(row) == row.date > cutoff IN SelectSeq(rows, InWindow)

\* transactions[transactions['date'] >= recent_date - timedelta(days=90)]
Since(rows, cutoff) ==
    LET InWindow(row) == row.date >= cutoff IN SelectSeq(rows, InWindow)

Last3m(rows) == Since(rows, MaxDate(rows) - WindowDays * MinutesPerDay)

\* The risk score before rounding, as the numerator of a fraction whose
\* denominator is 10 * credit_limit.  With total_spend in cents,
\* utilization (in percent) is total_spend / (3 * credit_limit) and
\* utilization * 0.3 is total_spend / (10 * credit_limit).
RiskScoreNum(window, credit_limit) ==
    LET den == 10 * credit_limit
        raw == Min(SumAmount(window), 30 * den)
                 + Len(SelectSeq(window, IsForeign)) * 5 * den
                 + Len(SelectSeq(window, IsLarge)) * 3 * den
                 + Len(SelectSeq(window, IsLateNight)) * 2 * den
    IN  Min(raw, 100 * den)

\* The category the code assigns, from the score before rounding.
RiskCategory(score_num, credit_limit) ==
    IF score_num < 30 * 10 * credit_limit THEN "Low"
    ELSE IF score_num < 60 * 10 * credit_limit THEN "Medium"
    ELSE "High"

\* A variant that divides by the credit limit alone.
UtilizationOfLimit(total_spend, credit_limit) ==
    RoundHalfEven(10 * total_spend, credit_limit)

\* round((total_spend / (credit_limit * 3)) * 100, 1), in tenths of a
\* percent, for total_spend in cents and credit_limit in dollars.
Utilization(total_spend, credit_limit) ==
    RoundHalfEven(10 * total_spend, 3 * credit_limit)

\* An empty table built from an empty list of rows has no 'date' column:
\* the first subscript raises.  Otherwise the metrics are returned;
\* risk_score and utilization in tenths, the money fields in cents.
calculate_risk_metrics(rows, customer_profile) ==
    IF rows = << >> THEN [status |-> "raised", error |-> "KeyError"]
    ELSE
      LET credit_limit == customer_profile.credit_limit
          last_3m      == Last3m(rows)
          total_spend  == SumAmount(last_3m)
          score_num    == RiskScoreNum(last_3m, credit_limit)
      IN  [ status |-> "ok",
            metrics |->
              [ risk_score        |-> RoundHalfEven(score_num, credit_limit),
                risk_category     |-> RiskCategory(score_num, credit_limit),
                utilization       |-> Utilization(total_spend, credit_limit),
                total_spend_3m    |-> total_spend,
                foreign_txn_count |-> Len(SelectSeq(last_3m, IsForeign)),
                large_txn_count   |-> Len(SelectSeq(last_3m, IsLarge)),
                avg_transaction   |-> RoundHalfEven(total_spend, Len(last_3m)) ] ]

\* What mean() of no values gives, and round() keeps.
NaN == "nan"

\* calculate_risk_metrics on a table that has its columns and no row (a
\* selection that matched nothing): the maximum of no dates is NaT, no row
\* compares as later than it, every sum and count is 0 and the mean is
\* undefined; no statement raises.
EmptyTableMetrics(customer_profile) ==
    [ status |-> "ok",
      metrics |->
        [ risk_score        |-> 0,
          risk_category     |-> "Low",
          utilization       |-> 0,
          total_spend_3m    |-> 0,
          foreign_txn_count |-> 0,
          large_txn_count   |-> 0,
          avg_transaction   |-> NaN ] ]

(***************************************************************************)
(* pd.concat(list_of_tables, ignore_index=True): raises on an empty list.  *)
(***************************************************************************)
RECURSIVE ConcatTo(_, _)
ConcatTo(tables, k) ==
    IF k = 0 THEN << >> ELSE ConcatTo(tables, k - 1) \o tables[k]

concat(tables) ==
    IF tables = << >> THEN [status |-> "raised", error |-> "ValueError"]
    ELSE [status |-> "ok", table |-> ConcatTo(tables, Len(tables))]

(***************************************************************************)
(* Text.  A question is a sequence of characters.                          *)
(***************************************************************************)
UpperCase ==
    << "A", "B", "C", "D", "E", "F", "G", "H", "I", "J", "K", "L", "M",
       "N", "O", "P", "Q", "R", "S", "T", "U", "V", "W", "X", "Y", "Z" >>

LowerCase ==
    << "a", "b", "c", "d", "e", "f", "g", "h", "i", "j", "k", "l", "m",
       "n", "o", "p", "q", "r", "s", "t", "u", "v", "w", "x", "y", "z" >>

\* str.lower().
LowerChar(c) ==
    IF \E k \in 1..26 : UpperCase[k] = c
      THEN LowerCase[CHOOSE k \in 1..26 : UpperCase[k] = c]
      ELSE c

Lower(text) == [k \in 1..Len(text) |-> LowerChar(text[k])]

\* word in text: `word` occurs in `text` as a contiguous run.
Contains(text, word) ==
    \E k \in 0..(Len(text) - Len(word)) :
        \A j \in 1..Len(word) : text[k + j] = word[j]

\* any(word in text for word in words)
AnyIn(text, words) == \E n \in 1..Len(words) : Contains(text, words[n])

RiskWords ==
    << << "r", "i", "s", "k" >>,
       << "s", "c", "o", "r", "e" >>,
       << "i", "n", "c", "r", "e", "a", "s", "e", "d" >>,
       << "r", "i", "s", "e" >>,
       << "h", "i", "g", "h" >> >>

SpendingWords ==
    << << "s", "p", "e", "n", "d" >>,
       << "s", "p", "e", "n", "d", "i", "n", "g" >>,
       << "p", "u", "r", "c", "h", "a", "s", "e", "s" >>,
       << "b", "u", "y", "i", "n", "g" >> >>

CategoryWords ==
    << << "c", "a", "t", "e", "g", "o", "r", "y" >>,
       << "c", "a", "t", "e", "g", "o", "r", "i", "e", "s" >>,
       << "w", "h", "a", "t" >>,
       << "w", "h", "e", "r", "e" >> >>

TrendWords ==
    << << "t", "r", "e", "n", "d" >>,
       << "p", "a", "t", "t", "e", "r", "n" >>,
       << "b", "e", "h", "a", "v", "i", "o", "r" >>,
       << "c", "h", "a", "n", "g", "e" >> >>

\* The questions put to the engine.
QuestionRiskScoreTrend ==
    << "W", "h", "a", "t", " ", "i", "s", " ", "t", "h", "e", " ", "r",
       "i", "s", "k", " ", "s", "c", "o", "r", "e", " ", "t", "r", "e",
       "n", "d", "?" >>

QuestionSpendingPatterns ==
    << "W", "h", "a", "t", " ", "a", "r", "e", " ", "t", "h", "e", " ",
       "m", "a", "i", "n", " ", "s", "p", "e", "n", "d", "i", "n", "g",
       " ", "p", "a", "t", "t", "e", "r", "n", "s", " ", "f", "o", "r",
       " ", "t", "h", "i", "s", " ", "c", "u", "s", "t", "o", "m", "e",
       "r", "?" >>

QuestionEmpty == << >>

QuestionHello ==
    << "H", "e", "l", "l", "o", " ", "t", "h", "e", "r", "e" >>

QuestionWhereUpper ==
    << "W", "H", "E", "R", "E", "?" >>

QuestionAnyChange ==
    << "A", "n", "y", " ", "c", "h", "a", "n", "g", "e", "?" >>

QuestionSunrise ==
    << "S", "u", "n", "r", "i", "s", "e" >>

QuestionCategoriesBehavior ==
    << "C", "a", "t", "e", "g", "o", "r", "i", "e", "s", " ", "a", "n",
       "d", " ", "b", "e", "h", "a", "v", "i", "o", "r" >>

QuestionPurchasesWhere ==
    << "P", "u", "r", "c", "h", "a", "s", "e", "s", ",", " ", "w", "h",
       "e", "r", "e", "?" >>

Questions ==
    { QuestionRiskScoreTrend,
      QuestionSpendingPatterns,
      QuestionEmpty,
      QuestionHello,
      QuestionWhereUpper,
      QuestionAnyChange,
      QuestionSunrise,
      QuestionCategoriesBehavior,
      QuestionPurchasesWhere }

(***************************************************************************)
(* Calendar periods (to_period('M'), to_period('Q')) and grouping.         *)
(***************************************************************************)
\* The day of the year, from 0, at which each month of the year ends.
MonthEnds == << 31, 59, 90, 120, 151, 181, 212, 243, 273, 304, 334, 365 >>

RECURSIVE MonthIndex(_, _)
MonthIndex(day_of_year, m) ==
    IF day_of_year < MonthEnds[m] THEN m ELSE MonthIndex(day_of_year, m + 1)

YearOf(date) == (date \div MinutesPerDay) \div 365

\* The month of the year, 1..12, of a timestamp.
MonthOfYear(date) == MonthIndex((date \div MinutesPerDay) % 365, 1)

\* The monthly and the quarterly period of a timestamp, as ordinals.
MonthOf(date) == YearOf(date) * 12 + (MonthOfYear(date) - 1)

QuarterOf(date) == YearOf(date) * 4 + ((MonthOfYear(date) - 1) \div 3)

\* A finite set of integers as an ascending sequence.
RECURSIVE Ascending(_)
Ascending(S) ==
    IF S = {} THEN << >>
    ELSE LET least == CHOOSE x \in S : \A y \in S : x <= y
         IN  << least >> \o Ascending(S \ {least})

\* Floor and remainder of a * 10^k / b, one decimal digit at a time, so that
\* no intermediate value leaves the 32-bit range; then Python's rounding.
RECURSIVE LongDiv(_, _, _, _)
LongDiv(q, r, b, k) ==
    IF k = 0 THEN << q, r >>
    ELSE LongDiv(q * 10 + ((r * 10) \div b), (r * 10) % b, b, k - 1)

RoundScaled(a, k, b) ==
    LET qr == LongDiv(a \div b, a % b, b, k)
    IN  IF 2 * qr[2] < b THEN qr[1]
        ELSE IF 2 * qr[2] > b THEN qr[1] + 1
        ELSE IF qr[1] % 2 = 0 THEN qr[1] ELSE qr[1] + 1

(***************************************************************************)
(* get_quarterly_comparison: one row per quarter present, in ascending     *)
(* order of the quarter (groupby sorts its keys).                          *)
(***************************************************************************)
\* The table with the 'quarter' column assigned (line 206).
WithQuarter(rows) ==
    [ k \in 1..Len(rows) |-> [quarter |-> QuarterOf(rows[k].date)] @@ rows[k] ]

InQuarter(rows, q) ==
    LET Test(row) == QuarterOf(row.date) = q IN SelectSeq(rows, Test)

QuarterRow(rows, q) ==
    LET part == InQuarter(rows, q)
    IN  [ quarter           |-> q,
          total_spend       |-> SumAmount(part),
          transaction_count |-> Len(part),
          avg_amount        |-> RoundHalfEven(SumAmount(part), Len(part)),
          foreign_count     |-> Len(SelectSeq(part, IsForeign)) ]

\* A variant that lists every quarter from the first to the last.
get_quarterly_comparison_zero_filled(rows) ==
    IF rows = << >> THEN [status |-> "raised", error |-> "KeyError"]
    ELSE
      LET present  == { QuarterOf(rows[k].date) : k \in 1..Len(rows) }
          first    == CHOOSE q \in present : \A r \in present : q <= r
          last     == CHOOSE q \in present : \A r \in present : q >= r
          quarters == Ascending(first..last)
      IN  [ status |-> "returned",
            value  |-> [n \in 1..Len(quarters) |->
                          IF quarters[n] \in present
                            THEN QuarterRow(rows, quarters[n])
                            ELSE [ quarter |-> quarters[n], total_spend |-> 0,
                                   transaction_count |-> 0, avg_amount |-> 0,
                                   foreign_count |-> 0 ]],
            argument |-> rows ]

\* The column is assigned to a copy of the argument (line 205), which the
\* function groups; `argument` is the caller's table as the call leaves it.
get_quarterly_comparison(rows) ==
    IF rows = << >> THEN [status |-> "raised", error |-> "KeyError"]
    ELSE
      LET local    == WithQuarter(rows)
          quarters == Ascending({ local[k].quarter : k \in 1..Len(local) })
      IN  [ status |-> "returned",
            value  |-> [n \in 1..Len(quarters) |-> QuarterRow(local, quarters[n])],
            argument |-> rows ]

(***************************************************************************)
(* GenAIInsightsHandler: the windows and aggregates of an explanation.     *)
(***************************************************************************)
\* groupby('category') lists the categories present in alphabetical order.
AlphabeticalCategories ==
    << "Dining", "Entertainment", "Gas", "Groceries", "Healthcare", "Other",
       "Shopping", "Travel", "Utilities" >>

InCategory(rows, category) ==
    LET Test(row) == row.category = category IN SelectSeq(rows, Test)

\* groupby('category') with sum, count and mean rounded to 2 decimals.
CategoryBreakdown(rows) ==
    LET IsPresent(category) == InCategory(rows, category) # << >>
        present == SelectSeq(AlphabeticalCategories, IsPresent)
    IN  [ n \in 1..Len(present) |->
            LET part == InCategory(rows, present[n])
            IN  [ category |-> present[n],
                  total    |-> SumAmount(part),
                  count    |-> Len(part),
                  avg      |-> RoundHalfEven(SumAmount(part), Len(part)) ] ]

\* sort_values(ascending=False) on the totals; equal totals keep the
\* grouping order.
RECURSIVE SortByTotalDescending(_)
SortByTotalDescending(groups) ==
    IF groups = << >> THEN << >>
    ELSE LET top == CHOOSE n \in 1..Len(groups) :
                      /\ \A m \in 1..Len(groups) : groups[m].total <= groups[n].total
                      /\ \A m \in 1..(n - 1) : groups[m].total < groups[n].total
             rest == [ m \in 1..(Len(groups) - 1) |->
                         IF m < top THEN groups[m] ELSE groups[m + 1] ]
         IN  << groups[top] >> \o SortByTotalDescending(rest)

\* head(n)
Head3(seq) == SubSeq(seq, 1, Min(3, Len(seq)))

\* A variant that takes last_30d, the rows of the last 30 days.
Last30d(rows) == Since(rows, MaxDate(rows) - DaysPerMonth * MinutesPerDay)

\* last_90d, as the handler computes it in each of its methods:
\* transactions[transactions['date'] >= recent_date - timedelta(days=90)]
Last90d(rows) == Since(rows, MaxDate(rows) - WindowDays * MinutesPerDay)

\* The rows of the 90 days before the trailing window.
Prev90d(rows) ==
    LET recent_date == MaxDate(rows)
        Test(row) ==
            /\ row.date >= recent_date - 2 * WindowDays * MinutesPerDay
            /\ row.date < recent_date - WindowDays * MinutesPerDay
    IN  SelectSeq(rows, Test)

(***************************************************************************)
(* The explanations.  A text is a sequence of parts; a part names the      *)
(* template text it renders and carries the values formatted into it:      *)
(* money in cents (,.2f and .2f), percentages in tenths (.1f).             *)
(***************************************************************************)
Part(text, args) == [text |-> text, args |-> args]

\* The wording chosen from a stored risk_score (in tenths).
RiskTier(risk_score) ==
    IF risk_score > 600 THEN "elevated"
    ELSE IF risk_score > 300 THEN "stable"
    ELSE "low"

_explain_risk(customer_data, rows) ==
    LET risk_score    == customer_data.risk_score
        utilization   == customer_data.utilization
        last_90d      == Last90d(rows)
        foreign_count == Len(SelectSeq(last_90d, IsForeign))
        large_txns    == Len(SelectSeq(last_90d, IsLarge))
        current_spend == SumAmount(last_90d)
        previous_spend == SumAmount(Prev90d(rows))
        diff          == current_spend - previous_spend
    IN  << Part("Risk Analysis", << customer_data.risk_category, risk_score >>) >>
        \o << Part(IF utilization > 800 THEN "High Utilization Alert"
                   ELSE IF utilization > 500 THEN "Moderate Utilization"
                   ELSE "Healthy Utilization", << utilization >>) >>
        \o (IF foreign_count > 5
              THEN << Part("International Activity", << foreign_count >>) >>
              ELSE << >>)
        \o (IF large_txns > 3
              THEN << Part("Large Transaction Pattern", << large_txns >>) >>
              ELSE << >>)
        \o (IF previous_spend > 0 /\ Abs(diff) * 100 > 30 * previous_spend
              THEN << Part("Spending Velocity Change",
                           << IF diff > 0 THEN "increased" ELSE "decreased",
                              RoundScaled(Abs(diff), 3, previous_spend) >>) >>
              ELSE << >>)
        \o << Part("Recommendation", << RiskTier(risk_score) >>) >>

_explain_spending(customer_data, rows) ==
    LET last_90d    == Last90d(rows)
        total_spend == SumAmount(last_90d)
        top == Head3(SortByTotalDescending(CategoryBreakdown(last_90d)))
    IN  << Part("Spending Analysis", << total_spend >>),
           Part("transactions with an average value",
                << Len(last_90d), RoundHalfEven(total_spend, Len(last_90d)) >>),
           Part("Top Spending Categories", << >>) >>
        \o [ n \in 1..Len(top) |->
               Part("category share",
                    << n, top[n].category, top[n].total,
                       RoundScaled(top[n].total, 3, total_spend) >>) ]
        \o (IF customer_data.segment = "Premium"
              THEN << Part("Premium Cardholder", << >>) >>
              ELSE << >>)

_explain_categories(customer_data, rows) ==
    LET breakdown == SortByTotalDescending(CategoryBreakdown(Last90d(rows)))
    IN  << Part("Category Spending Breakdown", << >>) >>
        \o [ n \in 1..Len(breakdown) |->
               Part("category line",
                    << breakdown[n].category, breakdown[n].total,
                       breakdown[n].count, breakdown[n].avg >>) ]

\* groupby('month')['amount'].sum().tail(6)
MonthlyTail(rows) ==
    LET months == Ascending({ MonthOf(rows[k].date) : k \in 1..Len(rows) })
        InMonth(m) == LET Test(row) == MonthOf(row.date) = m
                      IN  SelectSeq(rows, Test)
        monthly == [ n \in 1..Len(months) |->
                       [month |-> months[n], amount |-> SumAmount(InMonth(months[n]))] ]
    IN  SubSeq(monthly, Max(1, Len(monthly) - 5), Len(monthly))

_explain_trends(customer_data, rows) ==
    LET monthly == MonthlyTail(rows)
        n       == Len(monthly)
        \* twice the mean of the last two and of the first two months
        recent2 == monthly[n].amount + monthly[n - 1].amount
        older2  == monthly[1].amount + monthly[2].amount
    IN  << Part("Behavioral Trends Analysis", << >>),
           Part("Monthly Spending Trend", << >>) >>
        \o [ k \in 1..n |-> Part("month line", << monthly[k].month, monthly[k].amount >>) ]
        \o (IF n >= 2
              THEN << Part(IF 10 * recent2 > 12 * older2 THEN "Trend: Increasing"
                           ELSE IF 10 * recent2 < 8 * older2 THEN "Trend: Decreasing"
                           ELSE "Trend: Stable", << >>) >>
              ELSE << >>)

\* A variant that computes the risk figures anew from the rows given.
_general_summary_recomputed(customer_data, rows) ==
    LET live == calculate_risk_metrics(rows, customer_data).metrics
    IN  << Part("Customer Summary",
                << customer_data.customer_id, customer_data.segment,
                   live.risk_category, live.risk_score, live.utilization,
                   customer_data.total_spend_3m, customer_data.avg_transaction,
                   RiskTier(live.risk_score) >>) >>

_general_summary(customer_data, rows) ==
    << Part("Customer Summary",
            << customer_data.customer_id, customer_data.segment,
               customer_data.risk_category, customer_data.risk_score,
               customer_data.utilization, customer_data.total_spend_3m,
               customer_data.avg_transaction,
               RiskTier(customer_data.risk_score) >>) >>

(***************************************************************************)
(* generate_rule_based_insight: the first branch whose keywords occur in   *)
(* the lower-cased question.                                               *)
(***************************************************************************)
\* A variant that tests the keyword sets in another order.
IntentTrendFirst(question) ==
    LET question_lower == Lower(question)
    IN  IF AnyIn(question_lower, TrendWords) THEN "trends"
        ELSE IF AnyIn(question_lower, RiskWords) THEN "risk"
        ELSE IF AnyIn(question_lower, SpendingWords) THEN "spending"
        ELSE IF AnyIn(question_lower, CategoryWords) THEN "categories"
        ELSE "summary"

Intent(question) ==
    LET question_lower == Lower(question)
    IN  IF AnyIn(question_lower, RiskWords) THEN "risk"
        ELSE IF AnyIn(question_lower, SpendingWords) THEN "spending"
        ELSE IF AnyIn(question_lower, CategoryWords) THEN "categories"
        ELSE IF AnyIn(question_lower, TrendWords) THEN "trends"
        ELSE "summary"

\* A variant without the final else: an unmatched question gets no text.
generate_rule_based_insight_no_default(question, customer_data, rows) ==
    LET intent == Intent(question)
    IN  [ status |-> "returned",
          branch |-> intent,
          value  |->
            CASE intent = "risk" -> _explain_risk(customer_data, rows)
              [] intent = "spending" -> _explain_spending(customer_data, rows)
              [] intent = "categories" -> _explain_categories(customer_data, rows)
              [] intent = "trends" -> _explain_trends(customer_data, rows)
              [] OTHER -> << >> ]

generate_rule_based_insight(question, customer_data, rows) ==
    LET intent == Intent(question)
    IN  [ status |-> "returned",
          branch |-> intent,
          value  |->
            CASE intent = "risk" -> _explain_risk(customer_data, rows)
              [] intent = "spending" -> _explain_spending(customer_data, rows)
              [] intent = "categories" -> _explain_categories(customer_data, rows)
              [] intent = "trends" -> _explain_trends(customer_data, rows)
              [] OTHER -> _general_summary(customer_data, rows) ]

(***************************************************************************)
(* generate_customer_context: the summary handed to the external service.  *)
(***************************************************************************)
generate_customer_context(customer_data, rows) ==
    LET last_90d       == Last90d(rows)
        current_spend  == SumAmount(last_90d)
        previous_spend == SumAmount(Prev90d(rows))
        top == Head3(SortByTotalDescending(CategoryBreakdown(last_90d)))
    IN  [ customer_id    |-> customer_data.customer_id,
          segment        |-> customer_data.segment,
          credit_limit   |-> customer_data.credit_limit * 100,
          member_since   |-> customer_data.member_since \div MinutesPerDay,
          risk_score     |-> customer_data.risk_score,
          risk_category  |-> customer_data.risk_category,
          utilization    |-> customer_data.utilization,
          total_spend    |-> current_spend,
          transaction_count |-> Len(last_90d),
          avg_transaction |-> RoundHalfEven(current_spend, Len(last_90d)),
          spend_change   |->
            IF previous_spend > 0
              THEN [ sign  |-> IF current_spend >= previous_spend THEN "+" ELSE "-",
                     value |-> RoundScaled(Abs(current_spend - previous_spend), 3,
                                           previous_spend) ]
              ELSE [ sign |-> "+", value |-> 0 ],
          top_categories |-> [ n \in 1..Len(top) |-> << top[n].category, top[n].total >> ],
          foreign_count  |-> Len(SelectSeq(last_90d, IsForeign)),
          large_count    |-> Len(SelectSeq(last_90d, IsLarge)),
          online_count   |-> LET IsOnline(row) == row.is_online
                             IN  Len(SelectSeq(last_90d, IsOnline)) ]

(***************************************************************************)
(* query_with_openai and answer_query.  The external service is a black    *)
(* box; what the call of its client does is one of ServiceOutcomes:        *)
(*   "completion"     it returns a completion carrying a text;             *)
(*   "api_error"      it raises an exception (an API, authentication or    *)
(*                    quota error, or a timeout);                          *)
(*   "malformed"      it returns a response without the choice, message or *)
(*                    content the code reads: the subscript or attribute   *)
(*                    access raises inside the try block;                  *)
(*   "base_exception" it raises an exception that is no subclass of        *)
(*                    Exception (an interrupt, a cancellation).            *)
(***************************************************************************)
ServiceOutcomes == {"completion", "api_error", "malformed", "base_exception"}

\* The text a completion carries.
CompletionText == "The customer shows a stable spending pattern."

query_with_openai(question, context, outcome) ==
    IF outcome = "completion"
      THEN [status |-> "returned", value |-> << Part(CompletionText, << >>) >>]
    ELSE IF outcome \in {"api_error", "malformed"}
      THEN [ status |-> "returned",
             value  |-> << Part("Error querying OpenAI", << outcome >>),
                           Part("Falling back to rule-based insights...", << >>) >> ]
    ELSE [status |-> "raised", error |-> outcome]

\* A variant without the try block around query_with_openai.
answer_query_unguarded(use_openai, question, customer_data, rows, outcome) ==
    IF rows = << >> THEN [status |-> "raised", error |-> "KeyError"]
    ELSE
      LET context == generate_customer_context(customer_data, rows)
          reply   == query_with_openai(question, context, outcome)
      IN  IF use_openai
            THEN IF reply.status = "returned"
                   THEN [status |-> "returned", branch |-> "openai",
                         value |-> reply.value]
                   ELSE reply
            ELSE generate_rule_based_insight(question, customer_data, rows)

\* `outcome` is what the service does if it is called.
answer_query(use_openai, question, customer_data, rows, outcome) ==
    IF rows = << >> THEN [status |-> "raised", error |-> "KeyError"]
    ELSE
      LET context == generate_customer_context(customer_data, rows)
          reply   == query_with_openai(question, context, outcome)
      IN  IF use_openai /\ reply.status = "returned"
            THEN [status |-> "returned", branch |-> "openai", value |-> reply.value]
            ELSE generate_rule_based_insight(question, customer_data, rows)

(***************************************************************************)
(* State.                                                                  *)
(***************************************************************************)
VARIABLES
    seed,             \* the seed given to CreditCardDataGenerator
    clock,            \* the wall clock, in minutes
    ticks,            \* how often the clock has advanced
    run,              \* which run of the generator this is
    np_state,         \* numpy.random's generator
    py_state,         \* random's generator
    num_customers,    \* generate_complete_dataset's argument
    pc,               \* where generate_complete_dataset is
    i,                \* its loop index
    profile,          \* the profile of customer i
    transactions,     \* generate_transactions' list of rows
    current_date,     \* generate_transactions' reading of the clock
    month_offset,     \* its outer loop index
    all_customers,    \* generate_complete_dataset's lists
    all_transactions,
    dataset,          \* what generate_complete_dataset returned or raised
    previous,         \* the dataset of the run before this one
    handler,          \* the dashboard's GenAIInsightsHandler
    rendered          \* the last call the dashboard made, and its result

vars ==
    << seed, clock, ticks, run, np_state, py_state, num_customers, pc, i,
       profile, transactions, current_date, month_offset, all_customers, all_transactions, dataset, previous, handler,
       rendered >>

None == [status |-> "none"]

\* The instants at which a first run may start.
StartClocks ==
    { (2 * 365 + 200) * MinutesPerDay + 10 * 60 + 17,
      (3 * 365 + 95) * MinutesPerDay + 22 * 60 + 45 }

\* A variant that seeds both generators with the seed plus the customer
\* count.
ConstructSeededByCount(s, n) ==
    /\ seed' = s
    /\ np_state' = NpSeedState(s + n)
    /\ py_state' = PySeedState(s + n)
    /\ num_customers' = n
    /\ pc' = "loop"
    /\ i' = 0
    /\ profile' = None
    /\ transactions' = << >>
    /\ current_date' = 0
    /\ month_offset' = 0
    /\ all_customers' = << >>
    /\ all_transactions' = << >>
    /\ dataset' = None
    /\ handler' = None
    /\ rendered' = None

\* CreditCardDataGenerator(seed) followed by the call of
\* generate_complete_dataset(num_customers), up to its loop.
Construct(s, n) ==
    /\ seed' = s
    /\ np_state' = NpSeedState(s)
    /\ py_state' = PySeedState(s)
    /\ num_customers' = n
    /\ pc' = "loop"
    /\ i' = 0
    /\ profile' = None
    /\ transactions' = << >>
    /\ current_date' = 0
    /\ month_offset' = 0
    /\ all_customers' = << >>
    /\ all_transactions' = << >>
    /\ dataset' = None
    /\ handler' = None
    /\ rendered' = None

Init ==
    /\ seed \in Seeds
    /\ clock \in StartClocks
    /\ ticks = 0
    /\ run = 1
    /\ np_state = NpSeedState(seed)
    /\ py_state = PySeedState(seed)
    /\ num_customers \in 0..MaxCustomers
    /\ pc = "loop"
    /\ i = 0
    /\ profile = None
    /\ transactions = << >>
    /\ current_date = 0
    /\ month_offset = 0
    /\ all_customers = << >>
    /\ all_transactions = << >>
    /\ dataset = None
    /\ previous = None
    /\ handler = None
    /\ rendered = None

\* datetime.now(): the clock may have advanced since it was last read.
ReadClock(now) ==
    /\ now \in clock .. (clock + (MaxTicks - ticks))
    /\ clock' = now
    /\ ticks' = ticks + (now - clock)

(***************************************************************************)
(* generate_complete_dataset, step by step.                                *)
(***************************************************************************)
\* Lines 181-184: the next customer's id and profile.
GenerateCustomerProfile ==
    /\ pc = "loop"
    /\ i < num_customers
    /\ \E now \in clock .. (clock + MaxTicks) :
         /\ ReadClock(now)
         /\ LET r == generate_customer_profile(CustomerId(i + 1), now, np_state)
            IN  /\ profile' = r.profile
                /\ np_state' = r.np
    /\ pc' = "transactions"
    /\ UNCHANGED << seed, run, py_state, num_customers, i, transactions,
                    current_date, month_offset, all_customers,
                    all_transactions, dataset, previous, handler, rendered >>

\* generate_transactions, lines 55-74: the empty list and the clock.
BeginTransactions ==
    /\ pc = "transactions"
    /\ \E now \in clock .. (clock + MaxTicks) :
         /\ ReadClock(now)
         /\ current_date' = now
    /\ transactions' = << >>
    /\ month_offset' = 0
    /\ pc' = IF NumMonths > 0 THEN "month" ELSE "risk"
    /\ UNCHANGED << seed, run, np_state, py_state, num_customers, i, profile,
                    all_customers, all_transactions, dataset, previous, handler, rendered >>

\* A variant anchored one month later.
MonthStartNextMonth ==
    current_date - DaysPerMonth * (NumMonths - month_offset - 1) * MinutesPerDay

\* month_start of the month being generated.
MonthStart ==
    current_date - DaysPerMonth * (NumMonths - month_offset) * MinutesPerDay

\* Where the outer loop goes after month `m` is complete.
AfterMonth(m) == IF m + 1 < NumMonths THEN "month" ELSE "risk"

\* Lines 76-126, one pass of the outer loop: the month's transaction count
\* and its (unused) spend target, two draws from numpy's generator, and then
\* the inner loop.
GenerateMonth ==
    /\ pc = "month"
    /\ LET xn == PrngNext(np_state)
           xs == PrngNext(xn)
           num_transactions == RandBelow(xn, TxnCountLow, TxnCountHigh)
           r  == EmitMonth(profile, MonthStart, transactions,
                           num_transactions, py_state, xs)
       IN  /\ transactions' = r.rows
           /\ py_state' = r.py
           /\ np_state' = r.np
    /\ pc' = AfterMonth(month_offset)
    /\ month_offset' = month_offset + 1
    /\ UNCHANGED << seed, clock, ticks, run, num_customers, i, profile,
                    current_date, all_customers, all_transactions, dataset,
                    previous, handler, rendered >>

\* Lines 189-195: the risk metrics, merged into the profile; an exception of
\* calculate_risk_metrics leaves generate_complete_dataset.
CalculateRiskMetrics ==
    /\ pc = "risk"
    /\ LET r == calculate_risk_metrics(transactions, profile)
       IN  IF r.status = "ok"
             THEN /\ all_customers' = Append(all_customers, r.metrics @@ profile)
                  /\ all_transactions' = Append(all_transactions, transactions)
                  /\ i' = i + 1
                  /\ pc' = "loop"
                  /\ dataset' = dataset
             ELSE /\ dataset' = r
                  /\ pc' = "raised"
                  /\ UNCHANGED << all_customers, all_transactions, i >>
    /\ UNCHANGED << seed, clock, ticks, run, np_state, py_state,
                    num_customers, profile, transactions, current_date,
                    month_offset, previous, handler, rendered >>

\* Lines 197-200: the two tables.
ReturnDataset ==
    /\ pc = "loop"
    /\ i >= num_customers
    /\ LET c == concat(all_transactions)
       IN  IF c.status = "ok"
             THEN /\ dataset' = [ status |-> "returned",
                                  customers_df |-> all_customers,
                                  transactions_df |-> c.table ]
                  /\ pc' = "returned"
             ELSE /\ dataset' = c
                  /\ pc' = "raised"
    /\ UNCHANGED << seed, clock, ticks, run, np_state, py_state,
                    num_customers, i, profile, transactions, current_date,
                    month_offset, all_customers, all_transactions,
                    previous, handler, rendered >>

\* A later, independent run with the same seed and customer count.
Restart ==
    /\ pc \in {"returned", "raised"}
    /\ run < MaxRuns
    /\ run' = run + 1
    /\ previous' = dataset
    /\ Construct(seed, num_customers)
    /\ UNCHANGED << clock, ticks >>

\* A later, independent run with the same seed and one more customer,
\* started on a fresh generator while the clock still reads what it read
\* throughout the run before.
RestartLarger ==
    /\ pc \in {"returned", "raised"}
    /\ run < MaxRuns
    /\ num_customers < MaxCustomers
    /\ ticks = 0
    /\ run' = run + 1
    /\ previous' = dataset
    /\ Construct(seed, num_customers + 1)
    /\ UNCHANGED << clock, ticks >>

(***************************************************************************)
(* The dashboard (src/app.py) on a loaded dataset.                         *)
(***************************************************************************)
\* load_data: the dataset the dashboard works on was generated with the
\* default seed and has been returned; the cache keeps the dataset of the
\* first run for as long as the dashboard lives.
Loaded == pc = "returned" /\ seed = DefaultSeed /\ run = 1

\* A variant whose except clauses leave self.use_openai as it was given.
GenAIInsightsHandler_mode_kept(use_openai, client) ==
    [ status         |-> "ready",
      use_openai     |-> use_openai,
      requested      |-> use_openai,
      client_created |-> use_openai /\ client = "ok" ]

\* GenAIInsightsHandler.__init__: `client` is what importing the library
\* and creating its client does: "ok", "ImportError" or "Exception"; neither
\* is attempted unless external mode is requested.  Beside self.use_openai
\* the record keeps the argument given (`requested`) and whether
\* self.client was set (`client_created`).
GenAIInsightsHandler(use_openai, client) ==
    [ status         |-> "ready",
      use_openai     |-> use_openai /\ client = "ok",
      requested      |-> use_openai,
      client_created |-> use_openai /\ client = "ok" ]

ClientOutcomes == {"ok", "ImportError", "Exception"}

\* initialize_genai_handler: external mode is requested when the
\* environment holds a credential.
InitializeGenAIHandler ==
    /\ Loaded
    /\ handler = None
    /\ \E key_present \in BOOLEAN, client \in ClientOutcomes :
         handler' = GenAIInsightsHandler(key_present, client)
    /\ UNCHANGED << seed, clock, ticks, run, np_state, py_state,
                    num_customers, pc, i, profile, transactions,
                    current_date, month_offset, all_customers,
                    all_transactions, dataset, previous, rendered >>

\* customers_df[customers_df['customer_id'] == id].iloc[0].to_dict() for the
\* id of row n, and the rows of transactions_df with that id.
SelectedCustomer(n) == dataset.customers_df[n]

CustomerTransactions(n) ==
    LET Test(row) == row.customer_id = dataset.customers_df[n].customer_id
    IN  SelectSeq(dataset.transactions_df, Test)

\* answer_query on the selected customer and that customer's rows, as
\* render_genai_interface calls it with the text typed; the empty question
\* reaches it from a direct caller only.
AnswerQuery ==
    /\ Loaded
    /\ handler # None
    /\ rendered = None
    /\ \E n \in 1..Len(dataset.customers_df), question \in Questions,
          outcome \in ServiceOutcomes :
         /\ handler.use_openai \/ outcome = "completion"
         /\ rendered' =
              [ call     |-> "answer_query",
                customer |-> n,
                question |-> question,
                context  |-> generate_customer_context(SelectedCustomer(n),
                                                       CustomerTransactions(n)),
                outcome  |-> IF handler.use_openai THEN outcome ELSE "not called",
                result   |-> answer_query(handler.use_openai, question,
                                          SelectedCustomer(n),
                                          CustomerTransactions(n), outcome) ]
    /\ UNCHANGED << seed, clock, ticks, run, np_state, py_state,
                    num_customers, pc, i, profile, transactions,
                    current_date, month_offset, all_customers,
                    all_transactions, dataset, previous, handler >>

\* The risk tab: get_quarterly_comparison on the selected customer's rows.
QuarterlyComparison ==
    /\ Loaded
    /\ rendered = None
    /\ \E n \in 1..Len(dataset.customers_df) :
         rendered' =
           [ call     |-> "get_quarterly_comparison",
             customer |-> n,
             result   |-> get_quarterly_comparison(CustomerTransactions(n)) ]
    /\ UNCHANGED << seed, clock, ticks, run, np_state, py_state,
                    num_customers, pc, i, profile, transactions,
                    current_date, month_offset, all_customers,
                    all_transactions, dataset, previous, handler >>

\* Any interaction reruns the dashboard script from the top: what the last
\* run rendered is discarded; the cached dataset and handler are kept.
RerunScript ==
    /\ rendered # None
    /\ rendered' = None
    /\ UNCHANGED << seed, clock, ticks, run, np_state, py_state,
                    num_customers, pc, i, profile, transactions,
                    current_date, month_offset, all_customers,
                    all_transactions, dataset, previous, handler >>

Next ==
    \/ GenerateCustomerProfile
    \/ BeginTransactions
    \/ GenerateMonth
    \/ CalculateRiskMetrics
    \/ ReturnDataset
    \/ Restart
    \/ RestartLarger
    \/ InitializeGenAIHandler
    \/ AnswerQuery
    \/ QuarterlyComparison
    \/ RerunScript

Spec == Init /\ [][Next]_vars

(***************************************************************************)
(* The functions of the generator applied to tables given by a caller.     *)
(***************************************************************************)
\* Noon of the 10th of July of year 3.
RefDate == (3 * 365 + 190) * MinutesPerDay + 12 * 60

SyntheticRow(k, date, category, amount, is_foreign) ==
    [ customer_id    |-> CustomerId(1),
      transaction_id |-> TransactionId(CustomerId(1), k),
      date           |-> date,
      category       |-> category,
      merchant       |-> MERCHANT_CATEGORIES(category)[1],
      amount         |-> amount,
      is_foreign     |-> is_foreign,
      is_online      |-> FALSE ]

\* The rows a caller's table is made of: the latest day at noon; exactly 90
\* days before it and one minute earlier than that; a day of the first
\* quarter; the latest day again with a large amount; a late evening; a
\* large foreign amount on that evening; the latest day with another large
\* amount; an amount of exactly 1000.00 at 05:59; and a large foreign amount
\* late in an evening more than 90 days before all others.
RowPool ==
    { SyntheticRow(0, RefDate, "Travel", 450000, FALSE),
      SyntheticRow(1, RefDate - WindowDays * MinutesPerDay, "Dining", 12050, TRUE),
      SyntheticRow(2, RefDate - WindowDays * MinutesPerDay - 1, "Shopping", 30000, FALSE),
      SyntheticRow(3, RefDate - 120 * MinutesPerDay, "Groceries", 8025, FALSE),
      SyntheticRow(4, RefDate, "Travel", 1348000, FALSE),
      SyntheticRow(5, RefDate - MinutesPerDay + 11 * 60 + 30, "Gas", 4500, TRUE),
      SyntheticRow(6, RefDate - MinutesPerDay + 11 * 60 + 30, "Travel", 500000, TRUE),
      SyntheticRow(7, RefDate, "Travel", 1350000, FALSE),
      SyntheticRow(8, RefDate - 6 * 60 - 1, "Shopping", 100000, FALSE),
      SyntheticRow(9, RefDate - 92 * MinutesPerDay + 11 * 60 + 30, "Travel", 200000, TRUE) }

\* All tables of at most MaxRows rows of the pool.
Tables == UNION { [1..n -> RowPool] : n \in 0..MaxRows }

SyntheticProfiles ==
    { [ customer_id  |-> CustomerId(1),
        credit_limit |-> limit,
        segment      |-> "Standard",
        member_since |-> RefDate - TenureLow * MinutesPerDay,
        annual_fee   |-> AnnualFee("Standard") ] : limit \in {5000, 10000} }

InitFn ==
    /\ profile \in SyntheticProfiles
    /\ transactions \in Tables
    /\ rendered = None
    /\ pc = "caller"
    /\ seed = DefaultSeed
    /\ clock = RefDate
    /\ ticks = 0
    /\ run = 1
    /\ np_state = NpSeedState(DefaultSeed)
    /\ py_state = PySeedState(DefaultSeed)
    /\ num_customers = 0
    /\ i = 0
    /\ current_date = 0
    /\ month_offset = 0
    /\ all_customers = << >>
    /\ all_transactions = << >>
    /\ dataset = None
    /\ previous = None
    /\ handler = None

\* A caller's empty table either has no columns (it was built from an empty
\* list of rows, as generate_transactions builds it) or has them.
\* The wall-clock instants at which a caller computes the metrics: when the
\* table was made, and 200 days later.
CallTimes == { RefDate, RefDate + 200 * MinutesPerDay }

CallRiskMetrics ==
    /\ pc = "caller"
    /\ rendered = None
    /\ clock' \in CallTimes
    /\ \E has_columns \in BOOLEAN :
         rendered' =
           [ call   |-> "calculate_risk_metrics",
             result |-> IF transactions = << >> /\ has_columns
                          THEN EmptyTableMetrics(profile)
                          ELSE calculate_risk_metrics(transactions, profile) ]
    /\ UNCHANGED << seed, ticks, run, np_state, py_state,
                    num_customers, pc, i, profile, transactions,
                    current_date, month_offset, all_customers,
                    all_transactions, dataset, previous, handler >>

CallQuarterlyComparison ==
    /\ pc = "caller"
    /\ rendered = None
    /\ LET r == get_quarterly_comparison(transactions)
       IN  /\ rendered' = [call |-> "get_quarterly_comparison", result |-> r]
           /\ transactions' =
                IF r.status = "returned" THEN r.argument ELSE transactions
    /\ UNCHANGED << seed, clock, ticks, run, np_state, py_state,
                    num_customers, pc, i, profile,
                    current_date, month_offset, all_customers,
                    all_transactions, dataset, previous, handler >>

\* answer_query in rule-based mode on the caller's table and a customer
\* record whose risk metrics were computed when the table held only its
\* first j rows.  No statement under answer_query assigns to its arguments:
\* _explain_trends adds its column to a copy (lines 239-240).
CallAnswerQuery ==
    /\ pc = "caller"
    /\ rendered = None
    /\ \E j \in 1..Len(transactions), question \in Questions :
         LET stored == calculate_risk_metrics(SubSeq(transactions, 1, j),
                                              profile).metrics
             customer_data == stored @@ profile
         IN  rendered' =
               [ call          |-> "answer_query",
                 question      |-> question,
                 customer_data |-> customer_data,
                 result        |-> answer_query(FALSE, question, customer_data,
                                                transactions, "completion") ]
    /\ UNCHANGED << seed, clock, ticks, run, np_state, py_state,
                    num_customers, pc, i, profile, transactions,
                    current_date, month_offset, all_customers,
                    all_transactions, dataset, previous, handler >>

\* The states of random's generator right after the draw of rand_val: the
\* least and the greatest, those on either side of 5%, 15%, 30% and 55% of
\* the range, and twelve above all thresholds.
DrawSamples ==
    { 0, 3276, 3277, 9830, 9831, 19660, 19661, 36044, 36045, PrngModulus - 1 }
      \cup { 40000 + 1000 * k : k \in 0..11 }

\* Lines 85-91 in the first pass of the inner loop, nothing emitted yet, for
\* a profile of any segment: the draw of rand_val and the category chosen.
CallSelectCategory ==
    /\ pc = "caller"
    /\ rendered = None
    /\ transactions = << >>
    /\ \E segment \in { SegmentNames[n] : n \in 1..Len(SegmentNames) },
          rand_val \in DrawSamples :
         LET sel == SelectCategory(segment, rand_val, rand_val)
         IN  /\ rendered' = [ call     |-> "select_category",
                              segment  |-> segment,
                              rand_val |-> rand_val,
                              result   |-> sel.category,
                              drawn    |-> sel.py # rand_val ]
             /\ py_state' = sel.py
    /\ UNCHANGED << seed, clock, ticks, run, np_state,
                    num_customers, pc, i, profile, transactions,
                    current_date, month_offset, all_customers,
                    all_transactions, dataset, previous, handler >>

NextFn ==
    \/ CallRiskMetrics
    \/ CallQuarterlyComparison
    \/ CallAnswerQuery
    \/ CallSelectCategory

SpecFn == InitFn /\ [][NextFn]_vars

(***************************************************************************)
(* Properties.                                                             *)
(***************************************************************************)
\* The last call rendered is answer_query.
Answered == rendered # None /\ rendered.call = "answer_query"

\* generate_rule_based_insight produced the answer rendered: the engine is
\* in rule-based mode, or the external call was abandoned by the bare
\* except of answer_query.
RuleBasedAnswered ==
    /\ Answered
    /\ (~handler.use_openai \/ rendered.outcome = "base_exception")

\* The arguments of the answer_query call rendered.
AskedCustomer == SelectedCustomer(rendered.customer)

AskedRows == CustomerTransactions(rendered.customer)

\* The heading each explanation starts with.
BranchHeading(branch) ==
    CASE branch = "risk" -> "Risk Analysis"
      [] branch = "spending" -> "Spending Analysis"
      [] branch = "categories" -> "Category Spending Breakdown"
      [] branch = "trends" -> "Behavioral Trends Analysis"
      [] OTHER -> "Customer Summary"

\* C1 (as claimed): with external mode enabled and a failing external
\* service, answer_query returns exactly the text the rule-based engine
\* returns for the same question, customer and transactions.
C1_FallbackEquivalence ==
    (Answered /\ handler.use_openai /\ rendered.outcome # "completion")
      => /\ rendered.result.status = "returned"
         /\ rendered.result.value =
              generate_rule_based_insight(rendered.question, AskedCustomer,
                                          AskedRows).value

C5_AmountInCategoryRange ==
    \A k \in 1..Len(transactions) :
        /\ transactions[k].amount >= AmountRange(transactions[k].category)[1] * 100
        /\ transactions[k].amount < AmountRange(transactions[k].category)[2] * 100

\* The keyword sets in their declared order, and the first that matches.
DeclaredOrder ==
    << [branch |-> "risk", words |-> RiskWords],
       [branch |-> "spending", words |-> SpendingWords],
       [branch |-> "categories", words |-> CategoryWords],
       [branch |-> "trends", words |-> TrendWords] >>

Matching(question) ==
    { n \in 1..Len(DeclaredOrder) : AnyIn(Lower(question), DeclaredOrder[n].words) }

FirstMatching(question) ==
    IF Matching(question) = {} THEN "summary"
    ELSE DeclaredOrder[CHOOSE n \in Matching(question) :
                         \A m \in Matching(question) : n <= m].branch

\* C6: the rule-based answer is the explanation of the first keyword set, in
\* the order Risk, Spending, Category, Trend, that has a member occurring
\* in the lower-cased question, and of no later one.
C6_IntentPrecedence ==
    RuleBasedAnswered =>
      /\ rendered.result.status = "returned"
      /\ rendered.result.value # << >>
      /\ rendered.result.value[1].text =
           BranchHeading(FirstMatching(rendered.question))

C6_Witness ==
    /\ RuleBasedAnswered
    /\ rendered.question = QuestionRiskScoreTrend
    /\ Cardinality(Matching(rendered.question)) > 1
    /\ rendered.result.value[1].text = "Risk Analysis"

Finished == pc \in {"returned", "raised"}

\* C9 (as claimed): for every N the call returns N customer rows with the
\* ids CUST_00001 .. CUST_N, transactions that all belong to a customer of
\* the table, at least one for each customer; for N = 0 both tables are
\* empty.
C9_DatasetIntegrity ==
    Finished =>
      /\ dataset.status = "returned"
      /\ Len(dataset.customers_df) = num_customers
      /\ \A n \in 1..num_customers :
           dataset.customers_df[n].customer_id = CustomerId(n)
      /\ \A n, m \in 1..num_customers :
           n # m => dataset.customers_df[n].customer_id
                      # dataset.customers_df[m].customer_id
      /\ \A k \in 1..Len(dataset.transactions_df) :
           \E n \in 1..num_customers :
              dataset.transactions_df[k].customer_id
                = dataset.customers_df[n].customer_id
      /\ \A n \in 1..num_customers :
           \E k \in 1..Len(dataset.transactions_df) :
              dataset.transactions_df[k].customer_id
                = dataset.customers_df[n].customer_id
      /\ num_customers = 0 => dataset.transactions_df = << >>

\* C3 (as claimed): two runs with the same seed and customer count return
\* identical customer and transaction tables, member_since and the
\* transaction dates included.
C3_Determinism ==
    (/\ pc = "returned" /\ previous # None /\ previous.status = "returned"
     /\ Len(previous.customers_df) = num_customers)
      => /\ dataset.customers_df = previous.customers_df
         /\ dataset.transactions_df = previous.transactions_df

\* calculate_risk_metrics has returned metrics for the caller's table.
RiskReturned ==
    /\ rendered # None
    /\ rendered.call = "calculate_risk_metrics"
    /\ rendered.result.status = "ok"

\* The category the thresholds assign to a stored score (in tenths).
ThresholdCategory(risk_score) ==
    IF risk_score < 300 THEN "Low"
    ELSE IF risk_score < 600 THEN "Medium"
    ELSE "High"

\* C4 (as claimed): the stored risk_score is within 0..100 and the stored
\* risk_category is the one the thresholds assign to the stored score.
C4_RiskBounds ==
    RiskReturned =>
      /\ rendered.result.metrics.risk_score >= 0
      /\ rendered.result.metrics.risk_score <= 1000
      /\ rendered.result.metrics.risk_category
           = ThresholdCategory(rendered.result.metrics.risk_score)

\* The spend of the trailing window: the amounts of the rows dated no
\* earlier than 90 days before the latest row.
WindowSpend(rows) ==
    LET latest == CHOOSE d \in { rows[k].date : k \in 1..Len(rows) } :
                    \A k \in 1..Len(rows) : rows[k].date <= d
        InWindow(row) == latest - row.date <= WindowDays * MinutesPerDay
    IN  SumAmount(SelectSeq(rows, InWindow))

\* C10: the stored utilization is 100 * window spend / (credit_limit * 3)
\* rounded to one decimal, that is, within 0.05 of it; with a credit limit
\* of 10000 and a window spend of 9000 it is 30.0.
C10_UtilizationFormula ==
    RiskReturned =>
      LET spend == WindowSpend(transactions)
          limit == profile.credit_limit
          stored == rendered.result.metrics.utilization
      IN  /\ Abs(6 * limit * stored - 20 * spend) <= 3 * limit
          /\ (limit = 10000 /\ spend = 900000) => stored = 300

C10_Witness ==
    /\ RiskReturned
    /\ profile.credit_limit = 10000
    /\ WindowSpend(transactions) = 900000
    /\ SumAmount(transactions) > 900000
    /\ rendered.result.metrics.utilization = 300

\* The quarterly comparison has returned for the caller's table.
QuarterlyReturned ==
    /\ rendered # None
    /\ rendered.call = "get_quarterly_comparison"
    /\ rendered.result.status = "returned"

RowsInQuarter(rows, q) == { k \in 1..Len(rows) : QuarterOf(rows[k].date) = q }

RECURSIVE TotalCount(_, _)
TotalCount(summary, n) ==
    IF n = 0 THEN 0 ELSE summary[n].transaction_count + TotalCount(summary, n - 1)

\* C8: the comparison has one row for each quarter holding a transaction
\* and none for any other quarter, in ascending order of the quarter; a
\* row counts the transactions of its quarter and the counts add up to the
\* size of the input.
C8_QuarterlySparsity ==
    QuarterlyReturned =>
      LET summary == rendered.result.value
          present == { QuarterOf(transactions[k].date) : k \in 1..Len(transactions) }
      IN  /\ { summary[n].quarter : n \in 1..Len(summary) } = present
          /\ Len(summary) = Cardinality(present)
          /\ \A n \in 1..(Len(summary) - 1) :
               summary[n].quarter < summary[n + 1].quarter
          /\ \A n \in 1..Len(summary) :
               /\ summary[n].transaction_count >= 1
               /\ summary[n].transaction_count
                    = Cardinality(RowsInQuarter(transactions, summary[n].quarter))
          /\ TotalCount(summary, Len(summary)) = Len(transactions)

\* A table spanning only the first and the third quarter of year 3.
C8_Witness ==
    /\ QuarterlyReturned
    /\ { QuarterOf(transactions[k].date) : k \in 1..Len(transactions) }
         = { 3 * 4, 3 * 4 + 2 }
    /\ Len(transactions) > 2
    /\ Len(rendered.result.value) = 2

RECURSIVE DecimalValue(_)
DecimalValue(digits) ==
    IF digits = << >> THEN 0
    ELSE 10 * DecimalValue(SubSeq(digits, 1, Len(digits) - 1))
           + digits[Len(digits)]

\* C12: the k-th row (k = 0, 1, ...) of the list generate_transactions is
\* building carries the id TXN_<customer_id>_<k in 5 digits>, across all
\* months, the customer being the one of the profile while the call runs;
\* in the table returned no two rows share a transaction_id.
C12_TransactionIds ==
    /\ \A k \in 1..Len(transactions) :
         LET id == transactions[k].transaction_id
         IN  /\ id.prefix = "TXN_"
             /\ id.customer = transactions[k].customer_id
             /\ pc \in {"month", "risk"} => id.customer = profile.customer_id
             /\ Len(id.digits) = 5
             /\ \A j \in 1..5 : id.digits[j] \in 0..9
             /\ DecimalValue(id.digits) = k - 1
    /\ pc = "returned" =>
         Cardinality({ dataset.transactions_df[k].transaction_id :
                         k \in 1..Len(dataset.transactions_df) })
           = Len(dataset.transactions_df)

\* Two customers, more than 100 rows for the second, and the first rows of
\* both carrying the same index.
C12_Witness ==
    /\ pc = "returned"
    /\ Len(dataset.customers_df) = 2
    /\ Len(transactions) > 100
    /\ MonthOf(transactions[1].date) # MonthOf(transactions[Len(transactions)].date)
    /\ dataset.transactions_df[1].transaction_id.digits
         = transactions[1].transaction_id.digits
    /\ dataset.transactions_df[1].transaction_id # transactions[1].transaction_id

\* A caller's answer_query call has returned.
CallerAnswered ==
    /\ pc = "caller"
    /\ rendered # None
    /\ rendered.call = "answer_query"
    /\ rendered.result.status = "returned"

\* The risk figures answer_query reports are those of the customer record.
ReportsStoredRisk ==
    CallerAnswered =>
      LET stored == rendered.customer_data
          answer == rendered.result.value
      IN  /\ rendered.result.branch = "risk" =>
               /\ answer[1].args = << stored.risk_category, stored.risk_score >>
               /\ answer[2].args = << stored.utilization >>
          /\ rendered.result.branch = "summary" =>
               /\ answer[1].args[3] = stored.risk_category
               /\ answer[1].args[4] = stored.risk_score
               /\ answer[1].args[5] = stored.utilization

\* A call leaves the caller's customer record and table as they were.
ArgumentsKept == transactions' = transactions /\ profile' = profile

\* C13: the risk_score, risk_category and utilization of a risk explanation
\* and of a general summary are the values stored in the customer record,
\* also when the table passed gives other values; answer_query and
\* get_quarterly_comparison leave the record and the table unchanged.
C13_RiskSnapshot == [](ReportsStoredRisk) /\ [][ArgumentsKept]_vars

\* The record was computed on a shorter table: the score the table passed
\* would give differs from the one stored and reported.
C13_Witness ==
    /\ CallerAnswered
    /\ rendered.result.branch = "summary"
    /\ calculate_risk_metrics(transactions, profile).metrics.risk_score
         # rendered.customer_data.risk_score
    /\ rendered.result.value[1].args[4] = rendered.customer_data.risk_score

\* The rows of the trailing window: those no row is more than 90 days
\* later than.
WindowIndices(rows) ==
    { k \in 1..Len(rows) :
        \A j \in 1..Len(rows) :
            rows[j].date - rows[k].date <= 90 * MinutesPerDay }

\* The score before rounding that C14 states, as the numerator of a
\* fraction over 10 * credit_limit: the utilization term capped at 30, 5
\* for each foreign row, 3 for each amount above 1000 and 2 for each row
\* of an hour from 23 to 5, of the window, capped at 100.
StatedScoreNum(rows, limit) ==
    LET den == 10 * limit
        W == WindowIndices(rows)
        F == Cardinality({ k \in W : rows[k].is_foreign })
        L == Cardinality({ k \in W : rows[k].amount > 1000 * 100 })
        N == Cardinality({ k \in W :
                 LET hour == (rows[k].date % (24 * 60)) \div 60
                 IN  hour >= 23 \/ hour <= 5 })
    IN  Min(100 * den, Min(WindowSpend(rows), 30 * den) + (5 * F + 3 * L + 2 * N) * den)

C15_TrailingWindow ==
    RiskReturned =>
      LET rows == transactions
          W == WindowIndices(rows)
          m == rendered.result.metrics
      IN  /\ m.total_spend_3m = WindowSpend(rows)
          /\ m.foreign_txn_count = Cardinality({ k \in W : rows[k].is_foreign })
          /\ m.large_txn_count = Cardinality({ k \in W : rows[k].amount > 1000 * 100 })
          /\ W # {} =>
               m.avg_transaction = RoundHalfEven(WindowSpend(rows), Cardinality(W))
          /\ m.utilization = RoundHalfEven(10 * WindowSpend(rows), 3 * profile.credit_limit)

\* The call is made 200 days after the latest row; the table holds a row
\* exactly 90 days before its latest and one a minute earlier than that.
C15_Witness ==
    /\ RiskReturned
    /\ clock = RefDate + 200 * MinutesPerDay
    /\ \E a, b, c \in 1..Len(transactions) :
         /\ transactions[a].date = RefDate
         /\ transactions[b].date = RefDate - 90 * MinutesPerDay
         /\ transactions[c].date = RefDate - 90 * MinutesPerDay - 1
         /\ WindowIndices(transactions) = {a, b}
         /\ rendered.result.metrics.total_spend_3m
              = transactions[a].amount + transactions[b].amount
    /\ rendered.result.metrics.foreign_txn_count = 1

\* C16 (as claimed): calculate_risk_metrics returns no metrics for an empty
\* table, it raises; and the metrics it returns are those of a window that
\* holds at least the latest row, so that avg_transaction is defined.
C16_EmptyWindowGuard ==
    (rendered # None /\ rendered.call = "calculate_risk_metrics") =>
      /\ transactions = << >> => rendered.result.status = "raised"
      /\ rendered.result.status = "ok" =>
           /\ transactions # << >>
           /\ \E k \in WindowIndices(transactions) :
                \A j \in 1..Len(transactions) :
                    transactions[j].date <= transactions[k].date
           /\ rendered.result.metrics.avg_transaction # NaN

\* The (travel, dining) probabilities C17 states, in percent.
StatedProbabilities(segment) ==
    CASE segment = "Premium" -> << 30, 25 >>
      [] segment = "Standard" -> << 15, 15 >>
      [] segment = "Basic" -> << 5, 10 >>

NineCategories ==
    { "Dining", "Travel", "Shopping", "Groceries", "Entertainment",
      "Healthcare", "Utilities", "Gas", "Other" }

\* A category has been selected for a draw.
CategorySelected == rendered # None /\ rendered.call = "select_category"

StatedMonthLow(m) == current_date - 30 * (NumMonths - m) * MinutesPerDay

StatedMonthHigh(m) == StatedMonthLow(m) + 29 * MinutesPerDay + 23 * 60 + 59

\* One pass of the outer loop of generate_transactions has run.
MonthGenerated == pc = "month" /\ month_offset' = month_offset + 1

\* The pass for month_offset appends rows dated within that month's stated
\* range and leaves the earlier rows as they were.
MonthPlacement ==
    MonthGenerated =>
      /\ Len(transactions') > Len(transactions)
      /\ SubSeq(transactions', 1, Len(transactions)) = transactions
      /\ \A k \in (Len(transactions) + 1)..Len(transactions') :
           /\ transactions'[k].date >= StatedMonthLow(month_offset)
           /\ transactions'[k].date <= StatedMonthHigh(month_offset)

\* While and after the months are generated: the stated ranges of different
\* months are disjoint and ordered, every row lies in the range of a month
\* already generated, and every row is dated strictly before current_date.
MonthsOrdered ==
    pc \in {"month", "risk"} =>
      /\ \A m \in 0..(NumMonths - 2) : StatedMonthHigh(m) < StatedMonthLow(m + 1)
      /\ StatedMonthHigh(NumMonths - 1) < current_date
      /\ \A k \in 1..Len(transactions) :
           /\ transactions[k].date < current_date
           /\ \E m \in 0..(month_offset - 1) :
                /\ transactions[k].date >= StatedMonthLow(m)
                /\ transactions[k].date <= StatedMonthHigh(m)

\* C18: every transaction generated for month index m (0 = oldest) is dated
\* within [now - 30*(M-m) days, that + 29 days 23 hours 59 minutes]; the
\* ranges of different months do not overlap, months are generated oldest
\* to newest, and every transaction is dated strictly before now.
C18_TimestampPlacement == [](MonthsOrdered) /\ [][MonthPlacement]_vars

\* All months of a customer are generated, with rows in the oldest and in
\* the newest month.
C18_Witness ==
    /\ pc = "risk"
    /\ month_offset = NumMonths
    /\ \E k \in 1..Len(transactions) :
         transactions[k].date <= StatedMonthHigh(0)
    /\ \E k \in 1..Len(transactions) :
         transactions[k].date >= StatedMonthLow(NumMonths - 1)

\* The wording that goes with a risk_category.
TierOfCategory(risk_category) ==
    CASE risk_category = "High" -> "elevated"
      [] risk_category = "Medium" -> "stable"
      [] risk_category = "Low" -> "low"

\* C19: for every record calculate_risk_metrics produces, the recommendation
\* of the risk explanation and the closing sentence of the general summary
\* are the High wording exactly when risk_category is High, the Medium
\* wording exactly when it is Medium and the Low wording exactly when it is
\* Low, stored scores of exactly 30.0 and 60.0 included.
C19_TierAgreement ==
    CallerAnswered =>
      LET stored == rendered.customer_data
          answer == rendered.result.value
      IN  /\ rendered.result.branch = "risk" =>
               answer[Len(answer)] =
                 Part("Recommendation", << TierOfCategory(stored.risk_category) >>)
          /\ rendered.result.branch = "summary" =>
               answer[1].args[8] = TierOfCategory(stored.risk_category)

\* Two runs have returned, the later one with one more customer than the
\* earlier one, and every clock reading of both runs was the same.
LargerRunReturned ==
    /\ pc = "returned"
    /\ previous # None
    /\ previous.status = "returned"
    /\ Len(previous.customers_df) + 1 = num_customers
    /\ ticks = 0

\* C20: for a fixed seed and generation time and N >= 1, the first N
\* customer rows of generate_complete_dataset(N+1) on a freshly seeded
\* generator, and their transactions, equal the rows and transactions of
\* generate_complete_dataset(N) on a freshly seeded generator.
C20_PrefixStability ==
    LargerRunReturned =>
      LET N == Len(previous.customers_df)
          T == Len(previous.transactions_df)
      IN  /\ Len(dataset.customers_df) = N + 1
          /\ SubSeq(dataset.customers_df, 1, N) = previous.customers_df
          /\ Len(dataset.transactions_df) > T
          /\ SubSeq(dataset.transactions_df, 1, T) = previous.transactions_df
          /\ \A k \in (T + 1)..Len(dataset.transactions_df) :
               dataset.transactions_df[k].customer_id = CustomerId(N + 1)

\* A run of 1 customer followed by a run of 2 at the same clock reading.
C20_Witness ==
    /\ LargerRunReturned
    /\ Len(previous.customers_df) = 1
    /\ Len(previous.transactions_df) > 0
    /\ Len(dataset.customers_df) = 2

\* The dashboard has called answer_query on a customer of the generated
\* table and that customer's rows, and it has returned.
GeneratedAnswered ==
    /\ pc = "returned"
    /\ rendered # None
    /\ rendered.call = "answer_query"
    /\ rendered.result.status = "returned"

\* The parts of an answer that render the template `text`.
PartsOf(answer, text) ==
    LET Named(part) == part.text = text IN SelectSeq(answer, Named)

\* C21: for a record of the generated customer table and that customer's
\* complete transactions, the 90-day total spend, foreign count and count
\* of amounts over 1000 that answer_query recomputes (in the context, in
\* the spending branch and in the risk branch) equal the stored
\* total_spend_3m, foreign_txn_count and large_txn_count.
C21_SnapshotConsistency ==
    GeneratedAnswered =>
      LET stored  == SelectedCustomer(rendered.customer)
          context == rendered.context
          answer  == rendered.result.value
          foreign == PartsOf(answer, "International Activity")
          large   == PartsOf(answer, "Large Transaction Pattern")
      IN  /\ context.total_spend = stored.total_spend_3m
          /\ context.foreign_count = stored.foreign_txn_count
          /\ context.large_count = stored.large_txn_count
          /\ rendered.result.branch = "spending" =>
               answer[1] = Part("Spending Analysis", << stored.total_spend_3m >>)
          /\ rendered.result.branch = "risk" =>
               /\ foreign = IF stored.foreign_txn_count > 5
                              THEN << Part("International Activity",
                                           << stored.foreign_txn_count >>) >>
                              ELSE << >>
               /\ large = IF stored.large_txn_count > 3
                            THEN << Part("Large Transaction Pattern",
                                         << stored.large_txn_count >>) >>
                            ELSE << >>

\* A risk explanation that reports the count of large transactions, for a
\* customer with rows older than the 90-day window.
C21_Witness ==
    /\ GeneratedAnswered
    /\ rendered.result.branch = "risk"
    /\ SelectedCustomer(rendered.customer).large_txn_count > 3
    /\ PartsOf(rendered.result.value, "Large Transaction Pattern") # << >>
    /\ rendered.context.transaction_count
         < Len(CustomerTransactions(rendered.customer))

====
